---- MODULE Spec2Model ----
(***************************************************************************)
(* Model of chemprop/models/model.py: MoleculeModel (an MPN encoder        *)
(* followed by a feed-forward head) and build_model.                       *)
(*                                                                         *)
(* A layer object is a record [kind, id, in, out]; id is the identity of   *)
(* the Python object (create_ffn reuses ONE dropout object and ONE         *)
(* activation object at every position, each nn.Linear is a fresh object). *)
(* Tensor elements are fixed-point numbers in hundredths: the raw value r  *)
(* is the number 100 * r, and [0,1] is the range 0..100.                   *)
(***************************************************************************)
EXTENDS Integers, Sequences, FiniteSets, TLC

\* ---------------------------------------------------------------- bounds
MaxHidden == 1
MaxFfn    == 1
MaxTasks  == 2
MaxLayers == 4
MaxRaw    == 1

DatasetTypes    == {"classification", "regression", "multiclass"}
ConfidenceModes == {"nn", "gp", "none"}
LayerCounts     == (0 - 1)..MaxLayers
RawVals         == (0 - MaxRaw)..MaxRaw

VARIABLES
    args,             \* the Namespace passed to build_model
    built,            \* build_model has returned the model
    classification,   \* self.classification
    confidence,       \* self.confidence
    use_last_hidden,  \* self.use_last_hidden
    training,         \* nn.Module.training of the model
    encoder,          \* self.encoder
    ffn,              \* self.ffn, the sequence of layer objects
    op,               \* the last operation performed
    out               \* what the last forward call returned

vars == <<args, built, classification, confidence, use_last_hidden,
          training, encoder, ffn, op, out>>

\* ---------------------------------------------------------------- layers
Dropout    == [kind |-> "dropout",    id |-> 1, in |-> 0, out |-> 0]
Activation == [kind |-> "activation", id |-> 2, in |-> 0, out |-> 0]
Linear(n, i, o) == [kind |-> "linear", id |-> 2 + n, in |-> i, out |-> o]

\* len(range(n))
RangeLen(n) == IF n > 0 THEN n ELSE 0

first_linear_dim_always_adds(a) == a.hidden_size + a.features_dim

\* lines 44-46
first_linear_dim(a) ==
    IF a.use_input_features THEN a.hidden_size + a.features_dim
                            ELSE a.hidden_size

\* lines 51-54: the local output_size
ffn_output_size(a, conf) ==
    IF conf THEN a.output_size * 2 ELSE a.output_size

interior_count_minus_two(a) == RangeLen(a.ffn_num_layers - 2)

\* line 67: how many times the loop body runs
interior_count(a) == RangeLen(a.ffn_num_layers - 3)

\* lines 67-72: k triples, the j-th linear being the (j+1)-th linear created
RECURSIVE interior_stages(_, _)
interior_stages(k, a) ==
    IF k = 0 THEN << >>
    ELSE interior_stages(k - 1, a) \o
         <<Activation, Dropout, Linear(k + 1, a.ffn_hidden_size, a.ffn_hidden_size)>>

\* lines 38-87: the list handed to nn.Sequential
create_ffn(a, conf) ==
    LET k == interior_count(a)
        os == ffn_output_size(a, conf)
    IN  IF a.ffn_num_layers = 1
        THEN <<Dropout, Linear(1, first_linear_dim(a), os)>>
        ELSE <<Dropout, Linear(1, first_linear_dim(a), a.ffn_hidden_size)>>
             \o interior_stages(k, a)
             \o <<Activation, Dropout, Linear(k + 2, a.ffn_hidden_size, a.last_hidden_size)>>
             \o <<Activation, Dropout, Linear(k + 3, a.last_hidden_size, os)>>

\* line 36: the encoder's output is the hidden vector, with the external
\* features appended when they are in use
create_encoder(a) == [attached |-> TRUE, out_width |-> first_linear_dim(a)]

is_classifier_not_regression(a) == a.dataset_type # "regression"

\* line 117
is_classifier(a) == a.dataset_type = "classification"

confidence_mode_any(a) == a.confidence # "none"

\* line 118
confidence_mode(a) == a.confidence = "nn"

\* ---------------------------------------------------------------- forward
\* nn.Module.children(): the registered modules, each object once
RECURSIVE children(_)
children(s) ==
    IF s = << >> THEN << >>
    ELSE LET front == SubSeq(s, 1, Len(s) - 1)
             last  == s[Len(s)]
         IN  IF \E i \in 1..Len(front) : front[i].id = last.id
             THEN children(front)
             ELSE Append(children(front), last)

\* a Python slice [:-1]
all_but_last(s) == IF s = << >> THEN << >> ELSE SubSeq(s, 1, Len(s) - 1)

\* lines 96-97
forward_stages(f, ulh) == IF ulh THEN f ELSE all_but_last(children(f))

\* width of the tensor after running the stages on a tensor of width w;
\* -1 is the dimension-mismatch error of nn.Linear
RECURSIVE apply_width(_, _)
apply_width(s, w) ==
    IF s = << >> THEN w
    ELSE LET p == apply_width(SubSeq(s, 1, Len(s) - 1), w)
             l == s[Len(s)]
         IN  IF l.kind # "linear" THEN p
             ELSE IF p = l.in THEN l.out ELSE 0 - 1

\* nn.Sigmoid on a raw value, in hundredths, rounded
SigmoidTable == <<73, 88, 95, 98, 99>>

sigmoid(r) ==
    IF r = 0 THEN 50
    ELSE IF r > 0 THEN (IF r <= Len(SigmoidTable) THEN SigmoidTable[r] ELSE 100)
    ELSE (IF 0 - r <= Len(SigmoidTable) THEN 100 - SigmoidTable[0 - r] ELSE 0)

apply_sigmoid_ignores_flag(c, t, ulh) == c /\ ~t

apply_sigmoid_while_training(c, t, ulh) == c /\ t /\ ulh

\* line 101
apply_sigmoid(c, t, ulh) == c /\ ~t /\ ulh

NoOutput == [stages |-> << >>, width |-> 0, sigmoid |-> FALSE, raw |-> 0, val |-> 0]

\* ---------------------------------------------------------------- states
ArgsSpace ==
    [hidden_size : 1..MaxHidden,
     features_dim : 1..MaxHidden,
     use_input_features : BOOLEAN,
     ffn_hidden_size : 1..MaxFfn,
     last_hidden_size : 2..(MaxFfn + 1),
     ffn_num_layers : LayerCounts,
     num_tasks : 1..MaxTasks,
     output_size : 0..(MaxTasks + 1),
     dataset_type : DatasetTypes,
     confidence : ConfidenceModes]

Init ==
    /\ args \in {a \in ArgsSpace : a.output_size \in {0, a.num_tasks + 1}}
    /\ built = FALSE
    /\ classification = FALSE
    /\ confidence = FALSE
    /\ use_last_hidden = TRUE
    /\ training = TRUE
    /\ encoder = [attached |-> FALSE, out_width |-> 0]
    /\ ffn = << >>
    /\ op = "none"
    /\ out = NoOutput

build_model_ffn_writes_back ==
    /\ ~built
    /\ LET a == [args EXCEPT !.output_size = args.num_tasks]
           c == confidence_mode(a)
       IN  /\ args' = [a EXCEPT !.output_size = ffn_output_size(a, c)]
           /\ classification' = is_classifier(a)
           /\ confidence' = c
           /\ use_last_hidden' = TRUE
           /\ training' = TRUE
           /\ encoder' = create_encoder(a)
           /\ ffn' = create_ffn(a, c)
    /\ built' = TRUE
    /\ op' = "build_model"
    /\ out' = NoOutput

\* lines 107-128, with MoleculeModel.__init__ (lines 13-28)
build_model ==
    /\ ~built
    /\ LET a == [args EXCEPT !.output_size = args.num_tasks]
           c == confidence_mode(a)
       IN  /\ args' = a
           /\ classification' = is_classifier(a)
           /\ confidence' = c
           /\ use_last_hidden' = TRUE
           /\ training' = TRUE
           /\ encoder' = create_encoder(a)
           /\ ffn' = create_ffn(a, c)
    /\ built' = TRUE
    /\ op' = "build_model"
    /\ out' = NoOutput

forward_keeps_truncated_head ==
    /\ built
    /\ \E r \in RawVals :
         LET st == forward_stages(ffn, use_last_hidden)
             sg == apply_sigmoid(classification, training, use_last_hidden)
         IN  /\ out' = [stages |-> st,
                        width |-> apply_width(st, encoder.out_width),
                        sigmoid |-> sg,
                        raw |-> r,
                        val |-> IF sg THEN sigmoid(r) ELSE 100 * r]
             /\ ffn' = st
    /\ op' = "forward"
    /\ UNCHANGED <<args, built, classification, confidence, use_last_hidden,
                   training, encoder>>

\* lines 89-104; r is the value the selected stages compute for the input
forward ==
    /\ built
    /\ \E r \in RawVals :
         LET st == forward_stages(ffn, use_last_hidden)
             sg == apply_sigmoid(classification, training, use_last_hidden)
         IN  out' = [stages |-> st,
                     width |-> apply_width(st, encoder.out_width),
                     sigmoid |-> sg,
                     raw |-> r,
                     val |-> IF sg THEN sigmoid(r) ELSE 100 * r]
    /\ op' = "forward"
    /\ UNCHANGED <<args, built, classification, confidence, use_last_hidden,
                   training, encoder, ffn>>

\* model.train(mode) / model.eval() of nn.Module
train ==
    /\ built
    /\ \E mode \in BOOLEAN : training' = mode
    /\ op' = "train"
    /\ out' = NoOutput
    /\ UNCHANGED <<args, built, classification, confidence, use_last_hidden,
                   encoder, ffn>>

\* a caller assigning model.use_last_hidden
set_use_last_hidden ==
    /\ built
    /\ \E b \in BOOLEAN : use_last_hidden' = b
    /\ op' = "set_use_last_hidden"
    /\ out' = NoOutput
    /\ UNCHANGED <<args, built, classification, confidence, training,
                   encoder, ffn>>

Next == build_model \/ forward \/ train \/ set_use_last_hidden

Spec == Init /\ [][Next]_vars

\* ---------------------------------------------------------------- helpers
Linears(s) == SelectSeq(s, LAMBDA l : l.kind = "linear")

N == args.ffn_num_layers

InUnit(v) == v >= 0 /\ v <= 100

\* ---------------------------------------------------------------- claims
LastLinear == Linears(ffn)[Len(Linears(ffn))]

InputWidth ==
    IF args.use_input_features THEN args.hidden_size + args.features_dim
                               ELSE args.hidden_size

OutputWidth == args.num_tasks * (IF args.confidence = "nn" THEN 2 ELSE 1)

Max0(n) == IF n > 0 THEN n ELSE 0

\* C1: for every layer count N > 1 the head has exactly N linear transforms,
\* the first mapping the input width to ffn_hidden_size, the intermediate ones
\* ffn_hidden_size to ffn_hidden_size, the last two ending in last_hidden_size
\* and the output width; for N = 2 the head is
\* [dropout, linear, activation, dropout, linear].
C1_NLinearTransforms ==
    (built /\ N > 1) =>
        LET L == Linears(ffn)
        IN  /\ Len(L) = N
            /\ L[1].in = InputWidth
            /\ L[1].out = args.ffn_hidden_size
            /\ \A i \in 2..(Len(L) - 2) :
                   L[i].in = args.ffn_hidden_size /\ L[i].out = args.ffn_hidden_size
            /\ L[Len(L) - 1].out = args.last_hidden_size
            /\ L[Len(L)].out = OutputWidth
            /\ (N = 2 => [i \in 1..Len(ffn) |-> ffn[i].kind] =
                           <<"dropout", "linear", "activation", "dropout", "linear">>)

\* C2: for layer count 1 the head is one dropout followed by one linear
\* transform (input width -> output width) and no activation; the input width
\* is hidden_size, plus features_dim when use_input_features is set.
C2_SingleLayerHead ==
    (built /\ N = 1) =>
        /\ Len(ffn) = 2
        /\ ffn[1].kind = "dropout"
        /\ ffn[2].kind = "linear"
        /\ ffn[2].in = InputWidth
        /\ ffn[2].out = OutputWidth

C2_Witness ==
    /\ built /\ N = 1 /\ args.use_input_features
    /\ ffn[2].in = args.hidden_size + args.features_dim

\* C3: in every built model the final linear transform's output width is
\* num_tasks * 2 when args.confidence = 'nn' and num_tasks otherwise, and the
\* model is in uncertainty mode for 'nn' only.
C3_OutputWidth ==
    built =>
        /\ LastLinear.out = OutputWidth
        /\ confidence <=> (args.confidence = "nn")

C3_Witness ==
    /\ built /\ args.confidence = "nn" /\ N # 1 /\ args.num_tasks = MaxTasks
    /\ LastLinear.out = 2 * MaxTasks

\* C4: forward applies the sigmoid exactly when the model is a classifier,
\* is not training and use_last_hidden is true; otherwise the result of the
\* stages is returned as it is, and never transformed for a regressor.
C4_SigmoidExactlyWhen ==
    (op = "forward") =>
        /\ out.sigmoid <=> (classification /\ ~training /\ use_last_hidden)
        /\ out.sigmoid => out.val = sigmoid(out.raw)
        /\ ~out.sigmoid => out.val = 100 * out.raw
        /\ ~classification => out.val = 100 * out.raw

C4_Witness ==
    /\ op = "forward" /\ classification /\ ~training /\ ~use_last_hidden
    /\ ~out.sigmoid /\ out.raw = 0 - MaxRaw /\ out.val < 0

\* C5 (as stated): in inference mode every forward output of a classifier
\* lies in [0,1], whatever the truncated-head flag; in training mode the
\* output is the raw head output.
C5_InferenceInUnit ==
    (op = "forward" /\ classification) =>
        /\ ~training => InUnit(out.val)
        /\ training => out.val = 100 * out.raw

\* C5 (amended): in inference mode with full head output selected every
\* forward output of a classifier lies in [0,1]; with the truncated head or
\* in training mode the output is the raw output of the stages.
C5_InferenceFullHeadInUnit ==
    (op = "forward" /\ classification) =>
        /\ (~training /\ use_last_hidden) => InUnit(out.val)
        /\ (training \/ ~use_last_hidden) => out.val = 100 * out.raw

C5_Witness ==
    /\ op = "forward" /\ classification /\ ~training /\ use_last_hidden
    /\ out.raw = 0 - MaxRaw /\ ~InUnit(100 * out.raw) /\ InUnit(out.val)

\* C6: with use_last_hidden false, forward runs every stage of the head
\* before the final linear transform, in the original order and with every
\* repeated activation and dropout, and drops only the final linear
\* transform; the width returned is last_hidden_size for a layer count
\* above 1 and the head's input width for layer count 1.
C6_TruncatedHead ==
    (op = "forward" /\ ~use_last_hidden) =>
        /\ out.stages = SubSeq(ffn, 1, Len(ffn) - 1)
        /\ N > 1 => out.width = args.last_hidden_size
        /\ N = 1 => out.width = InputWidth

\* C7: the built model is a classifier iff args.dataset_type is
\* 'classification', whatever the confidence setting; it has its encoder and
\* its head, and it starts with use_last_hidden true.
C7_ClassifierIff ==
    built =>
        /\ classification <=> (args.dataset_type = "classification")
        /\ encoder.attached
        /\ ffn # << >>
        /\ op = "build_model" => use_last_hidden

C7_Witness ==
    /\ op = "build_model" /\ args.dataset_type = "multiclass"
    /\ args.confidence = "nn" /\ ~classification /\ use_last_hidden

\* C8: after build_model, args.output_size is args.num_tasks, whatever it
\* was before and also in uncertainty mode.
C8_OutputSizeRecorded ==
    built => args.output_size = args.num_tasks

C8_Witness ==
    /\ op = "build_model" /\ confidence
    /\ args.output_size = MaxTasks /\ LastLinear.out = 2 * MaxTasks

\* C9: for every layer count N other than 1 there are max(0, N - 3) interior
\* stages (ffn_hidden_size -> ffn_hidden_size), and every linear transform
\* after the first comes right after an activation and then a dropout.
C9_InteriorStages ==
    (built /\ N # 1) =>
        LET L == Linears(ffn)
        IN  /\ Len(L) - 3 = Max0(N - 3)
            /\ Len(ffn) = 2 + 3 * (Len(L) - 1)
            /\ \A i \in 2..(Len(L) - 2) :
                   L[i].in = args.ffn_hidden_size /\ L[i].out = args.ffn_hidden_size
            /\ \A i \in 3..Len(ffn) :
                   ffn[i].kind = "linear" =>
                       ffn[i - 2].kind = "activation" /\ ffn[i - 1].kind = "dropout"

C9_Witness ==
    /\ built /\ N = 2 /\ Len(Linears(ffn)) = 3 /\ Len(ffn) = 8

\* C10: once the model is built, no forward call, training-mode switch or
\* write of use_last_hidden changes classification, confidence or the head's
\* layer stack; forward leaves use_last_hidden alone, and a forward call with
\* the flag true runs the whole stack.
C10_FixedAfterConstruction ==
    [][built =>
          /\ classification' = classification
          /\ confidence' = confidence
          /\ ffn' = ffn
          /\ op' = "forward" =>
                /\ use_last_hidden' = use_last_hidden
                /\ use_last_hidden' => out'.stages = create_ffn(args, confidence)]_vars

C10_Witness ==
    /\ op = "forward" /\ use_last_hidden /\ N = MaxLayers
    /\ out.stages = ffn /\ Len(ffn) = 2 + 3 * (MaxLayers - 1)

====
